---- MODULE Spec2Model ----
EXTENDS Integers, Naturals, Sequences, FiniteSets, TLC

(***************************************************************************)
(* Architecture memory primitives: src/kernel/src/core_requirements.rs     *)
(***************************************************************************)

\* Overhang below which memmove copies by bytes and 8-byte words.
SmallOverhang == 64

\* Largest byte alignment of the lower of the two pointers.
MaxAlign == 8
\* Pointer distances 0..MaxNear exercise the byte / 8-byte-word path.
MaxNear == 10
\* Pointer distances SmallOverhang-1 .. SmallOverhang+FarSpan exercise the
\* threshold and the chunked path.
FarSpan == 2
\* Largest length moved.
MaxLen == 132
\* Size of the modelled address space; every byte holds a distinct value.
MemSize == MaxAlign + SmallOverhang + FarSpan + MaxLen + 1

\* usize arithmetic wraps at 2^64.  Every address and length of the modelled
\* address space is below MemSize and n is only decremented while it is at
\* least the amount subtracted, so no operation below ever wraps.
wrapping_add(a, b) == a + b
wrapping_sub(a, b) == a - b

\* Memory before the call: the byte at address a holds a % 256.
InitialMemory == [a \in 0..(MemSize - 1) |-> a % 256]

\* rep movsb with the direction flag clear: n single-byte moves, ascending.
RECURSIVE RepMovsb(_, _, _, _)
RepMovsb(m, rdi, rsi, rcx) ==
  IF rcx = 0 THEN m
  ELSE RepMovsb([m EXCEPT ![rdi] = m[rsi]], rdi + 1, rsi + 1, rcx - 1)

memcpy(m, dest, src, n) == RepMovsb(m, dest, src, n)

\* The overlap test of memmove: dest is ahead of src and inside src[0..n).
OverlapAheadMutant(dest, src, n) == dest < src /\ wrapping_add(dest, n) > src
OverlapAhead(dest, src, n) == dest > src /\ wrapping_add(src, n) > dest

\* First loop of the small-overhang path: single bytes from the top down
\* until dest + n is 8-byte aligned.  Returns <<memory, n>>.
RECURSIVE TailBytes(_, _, _, _)
TailBytes(m, dest, src, n) ==
  IF n /= 0 /\ wrapping_add(dest, n) % 8 /= 0
  THEN TailBytes([m EXCEPT ![dest + (n - 1)] = m[src + (n - 1)]], dest, src, wrapping_sub(n, 1))
  ELSE <<m, n>>

\* Second loop: 8-byte words from the top down; the whole word is read
\* (read_unaligned) before it is written.
RECURSIVE WordStride(_, _, _, _)
WordStride(m, dest, src, n) ==
  IF n >= 8
  THEN LET k   == wrapping_sub(n, 8)
           val == [j \in 0..7 |-> m[src + k + j]]
       IN WordStride([a \in DOMAIN m |->
                        IF a >= dest + k /\ a < dest + k + 8 THEN val[a - (dest + k)] ELSE m[a]],
                     dest, src, k)
  ELSE <<m, n>>

\* Third loop: the remaining bytes from the top down.
RECURSIVE HeadBytes(_, _, _, _)
HeadBytes(m, dest, src, n) ==
  IF n /= 0
  THEN HeadBytes([m EXCEPT ![dest + (n - 1)] = m[src + (n - 1)]], dest, src, wrapping_sub(n, 1))
  ELSE <<m, n>>

\* Large-overhang loop: overhang-sized chunks from the top down through memcpy.
RECURSIVE ChunkLoop(_, _, _, _, _)
ChunkLoop(m, dest, src, n, overhang) ==
  IF n >= overhang
  THEN LET k == wrapping_sub(n, overhang)
       IN ChunkLoop(memcpy(m, dest + k, src + k, overhang), dest, src, k, overhang)
  ELSE <<m, n>>

\* memmove(dest, src, n): the memory after the call.
memmove(m, dest, src, n) ==
  IF OverlapAhead(dest, src, n)
  THEN LET overhang == dest - src IN
       IF overhang < SmallOverhang
       THEN LET s1 == TailBytes(m, dest, src, n)
                s2 == WordStride(s1[1], dest, src, s1[2])
                s3 == HeadBytes(s2[1], dest, src, s2[2])
            IN s3[1]
       ELSE LET c == ChunkLoop(m, dest, src, n, overhang)
            IN IF c[2] = 0 THEN c[1] ELSE memcpy(c[1], dest, src, c[2])
  ELSE memcpy(m, dest, src, n)

\* Longest buffers handed to memcmp.
MaxCmpLen == 3
\* The byte values the buffers are filled with.
CmpBytes == {0, 3, 255}

\* `a as i32` of a u8 is its value; the wrapping_sub of two such values
\* lies in -255..255 and never wraps.
I32Sub(a, b) == a - b

\* memcmp from index ii on: the value returned and the number of indices
\* read from each buffer.  Index ii of the source is element ii + 1 here.
RECURSIVE MemcmpFromSigned(_, _, _, _)
MemcmpFromSigned(s1, s2, n, ii) ==
  IF ii < n
  THEN LET a == s1[ii + 1]
           b == s2[ii + 1]
       IN IF a /= b
          THEN [ret |-> I32Sub(IF a >= 128 THEN a - 256 ELSE a, IF b >= 128 THEN b - 256 ELSE b),
                reads |-> ii + 1]
          ELSE MemcmpFromSigned(s1, s2, n, ii + 1)
  ELSE [ret |-> 0, reads |-> ii]
RECURSIVE MemcmpFrom(_, _, _, _)
MemcmpFrom(s1, s2, n, ii) ==
  IF ii < n
  THEN LET a == s1[ii + 1]
           b == s2[ii + 1]
       IN IF a /= b
          THEN [ret |-> I32Sub(a, b), reads |-> ii + 1]
          ELSE MemcmpFrom(s1, s2, n, ii + 1)
  ELSE [ret |-> 0, reads |-> ii]

memcmp(s1, s2, n) == MemcmpFrom(s1, s2, n, 0)

\* The buffers callers compare: every buffer of MaxCmpLen bytes, and the
\* pair [1,2,3], [1,2,5].
CmpBuffers == [1..MaxCmpLen -> CmpBytes] \cup {<<1, 2, 3>>, <<1, 2, 5>>}

VARIABLES
  mem,               \* the bytes of the address space memmove works on
  mm_dest, mm_src, mm_n,  \* the arguments of the last memmove call
  mm_pc,             \* "idle" or "returned": position of the memmove caller
  cmp_a, cmp_b, cmp_n,    \* the arguments of the last memcmp call
  cmp_ret,           \* the value the last memcmp call returned
  cmp_reads,         \* how many indices the last memcmp call read
  cmp_pc,            \* "idle" or "returned": position of the memcmp caller
  in_use,            \* in_use of the running output_string
  out_pos,           \* characters the running output_string has taken from the string
  out_top,           \* greatest index of tmp accessed by the running output_string, -1 when none
  pc,                \* position of the kernel's single execution context
  EFI_SYSTEM_TABLE,  \* the AtomicPtr holding the firmware system table pointer
  os_ret,            \* where the running output_string returns to
  st,                \* the pointer last loaded from EFI_SYSTEM_TABLE
  panic_msg,         \* message of the panic in progress, "" when there is none
  console_calls,     \* number of firmware console output_string calls made
  reg_log,           \* one record per register_system_table call made
  idt_entry_t,       \* the 256 descriptors
  idtr_t,            \* limit and base handed to lidt
  cpu_idtr,          \* the processor's table register
  idt_i,             \* loop variable of the fill loop
  lidt_count,        \* lidt instructions executed by the current idt_init call
  idt_calls,         \* idt_init calls completed
  image,             \* where the kernel image is loaded
  cur_handler,       \* the handler a trap entered, "" when there is none
  sys_t,             \* the system table pointer the firmware passes to efi_main
  fw_status,         \* ret: status of the firmware get_memory_map call
  fw_calls,          \* number of firmware get_memory_map calls made
  map_size,          \* size
  mdesc_size,        \* mdesc_size
  map_descs,         \* what the firmware wrote into memory_map
  off,               \* loop variable of the walk
  free_memory,       \* free_memory
  printed,           \* the lines the walk has printed, one per decoded entry
  read_hi            \* end offset in memory_map of the last descriptor read_unaligned read

moveVars == <<mem, mm_dest, mm_src, mm_n, mm_pc>>
cmpVars  == <<cmp_a, cmp_b, cmp_n, cmp_ret, cmp_reads, cmp_pc>>
outVars  == <<in_use, out_pos, out_top>>
libVars  == <<cmpVars, outVars>>
efiVars  == <<EFI_SYSTEM_TABLE, os_ret, st, panic_msg, console_calls, reg_log>>
idtVars  == <<idt_entry_t, idtr_t, cpu_idtr, idt_i, lidt_count, idt_calls, image, cur_handler>>
mapVars  == <<sys_t, fw_status, fw_calls, map_size, mdesc_size, map_descs, off, free_memory, printed, read_hi>>

vars == <<moveVars, libVars, pc, efiVars, idtVars, mapVars>>

\* The distances between dest and src that callers use.
Deltas == (0..MaxNear) \cup ((SmallOverhang - 1)..(SmallOverhang + FarSpan))

\* A caller invokes memmove on two ranges inside the address space.
CallMemmove ==
  /\ mm_pc = "idle"
  /\ \E lo \in 0..MaxAlign, delta \in Deltas, n \in 0..MaxLen, ahead \in BOOLEAN :
       LET dest == IF ahead THEN lo + delta ELSE lo
           src  == IF ahead THEN lo ELSE lo + delta
       IN /\ mm_dest' = dest /\ mm_src' = src /\ mm_n' = n
          /\ mem' = memmove(mem, dest, src, n)
  /\ mm_pc' = "returned"

\* The caller is done with the result; the memory is set up afresh.
ResetMove ==
  /\ mm_pc = "returned"
  /\ mem' = InitialMemory
  /\ mm_dest' = 0 /\ mm_src' = 0 /\ mm_n' = 0
  /\ mm_pc' = "idle"

\* A caller invokes memcmp on two buffers and a length within both.
CallMemcmp ==
  /\ cmp_pc = "idle"
  /\ \E a \in CmpBuffers, b \in CmpBuffers :
       \E n \in 0..(IF Len(a) < Len(b) THEN Len(a) ELSE Len(b)) :
         LET r == memcmp(a, b, n)
         IN /\ cmp_a' = a /\ cmp_b' = b /\ cmp_n' = n
            /\ cmp_ret' = r.ret
            /\ cmp_reads' = r.reads
  /\ cmp_pc' = "returned"

\* The caller is done with the result.
ResetCmp ==
  /\ cmp_pc = "returned"
  /\ cmp_a' = <<>> /\ cmp_b' = <<>> /\ cmp_n' = 0
  /\ cmp_ret' = 0 /\ cmp_reads' = 0
  /\ cmp_pc' = "idle"

(***************************************************************************)
(* Firmware handoff state and diagnostic output: src/shared/efi/src/lib.rs *)
(***************************************************************************)

\* core::ptr::null_mut()
Null == 0
\* Number of distinct non-null system table pointers callers may pass.
NumTables == 2
Pointers == {Null} \cup (1..NumTables)

\* Most register_system_table calls a caller makes in one run.
MaxRegCalls == 3
\* Most output_string calls a caller makes in one run.
MaxPrints == 2

\* AtomicPtr::compare_exchange(current, new): stores new only when the value
\* held equals current; Ok carries the previous value, Err the value found.
compare_exchangeSwap(held, current, new) ==
  [ok |-> TRUE, found |-> held, now |-> new]
compare_exchangeStoreFirst(held, current, new) ==
  [ok |-> held = current, found |-> held, now |-> new]
compare_exchangeRejectNull(held, current, new) ==
  IF held = current /\ new /= Null
  THEN [ok |-> TRUE,  found |-> held, now |-> new]
  ELSE [ok |-> FALSE, found |-> held, now |-> held]
compare_exchange(held, current, new) ==
  IF held = current
  THEN [ok |-> TRUE,  found |-> held, now |-> new]
  ELSE [ok |-> FALSE, found |-> held, now |-> held]

ExpectMessage == "Could not register the system table"

\* register_system_table(system_table), returning to ret_pc: one
\* compare_exchange from null, and .expect() panics on Err.
register_system_table(system_table, ret_pc) ==
  LET r == compare_exchange(EFI_SYSTEM_TABLE, Null, system_table) IN
  /\ EFI_SYSTEM_TABLE' = r.now
  /\ reg_log' = Append(reg_log, [arg |-> system_table, before |-> r.found, ok |-> r.ok])
  /\ IF r.ok
     THEN pc' = ret_pc /\ panic_msg' = panic_msg
     ELSE pc' = "panic" /\ panic_msg' = ExpectMessage

\* output_string, first half: load the system table pointer and return at
\* once when it is null.
OsLoad ==
  /\ pc = "os_load"
  /\ st' = EFI_SYSTEM_TABLE
  /\ pc' = IF EFI_SYSTEM_TABLE = Null THEN os_ret ELSE "os_write"
  /\ UNCHANGED <<EFI_SYSTEM_TABLE, os_ret, panic_msg, console_calls, reg_log>>

\* output_string, second half: the text goes to the console_out protocol of
\* the table that was loaded.
OsWrite ==
  /\ pc = "os_write"
  /\ console_calls' = console_calls + 1
  /\ pc' = os_ret
  /\ UNCHANGED <<EFI_SYSTEM_TABLE, os_ret, st, panic_msg, reg_log>>

\* output_string with its temporary buffer.  tmp has TmpLen entries and is
\* written out when in_use reaches TmpLen - 2.
TmpLen == 32
FlushAt == TmpLen - 2

\* Longest string handed to output_string.
MaxStrLen == 34

\* The UCS-2 units that matter to output_string: a newline, or any other.
Chars == {"newline", "other"}

BoundsMessage == "index out of bounds"

Max(a, b) == IF a > b THEN a ELSE b

\* let st = load; return when null; tmp = [0; 32]; in_use = 0.
OutLoad ==
  /\ pc = "out_call"
  /\ st' = EFI_SYSTEM_TABLE
  /\ pc' = IF EFI_SYSTEM_TABLE = Null THEN "out_done" ELSE "out_loop"
  /\ in_use' = 0
  /\ UNCHANGED <<out_pos, out_top>>
  /\ UNCHANGED <<EFI_SYSTEM_TABLE, os_ret, panic_msg, console_calls, reg_log>>

\* One iteration of the loop over string.encode_utf16(), for the next unit
\* chr of the string: the carriage return before a newline, the unit
\* itself, and the write-out at FlushAt.  An index of TmpLen or more panics.
OutChar(chr) ==
  /\ pc = "out_loop"
  /\ out_pos < MaxStrLen
  /\ out_pos' = out_pos + 1
  /\ LET at_cr  == in_use
         at_chr == IF chr = "newline" THEN in_use + 1 ELSE in_use
         filled == at_chr + 1
     IN IF chr = "newline" /\ at_cr >= TmpLen
        THEN /\ out_top' = Max(out_top, at_cr)
             /\ pc' = "panic" /\ panic_msg' = BoundsMessage
             /\ UNCHANGED <<in_use, console_calls>>
        ELSE IF at_chr >= TmpLen
        THEN /\ out_top' = Max(out_top, at_chr)
             /\ in_use' = at_chr
             /\ pc' = "panic" /\ panic_msg' = BoundsMessage
             /\ UNCHANGED console_calls
        ELSE IF filled = FlushAt
        THEN /\ out_top' = Max(out_top, filled)
             /\ console_calls' = console_calls + 1
             /\ in_use' = 0
             /\ pc' = "out_loop" /\ panic_msg' = panic_msg
        ELSE /\ out_top' = Max(out_top, at_chr)
             /\ in_use' = filled
             /\ pc' = "out_loop" /\ panic_msg' = panic_msg
             /\ UNCHANGED console_calls
  /\ UNCHANGED <<EFI_SYSTEM_TABLE, os_ret, st, reg_log>>

\* The string is exhausted: the remaining characters are terminated and
\* written out.
OutRest ==
  /\ pc = "out_loop"
  /\ IF in_use = 0
     THEN /\ pc' = "out_done" /\ panic_msg' = panic_msg
          /\ UNCHANGED <<out_top, console_calls>>
     ELSE IF in_use >= TmpLen
     THEN /\ out_top' = Max(out_top, in_use)
          /\ pc' = "panic" /\ panic_msg' = BoundsMessage
          /\ UNCHANGED console_calls
     ELSE /\ out_top' = Max(out_top, in_use)
          /\ console_calls' = console_calls + 1
          /\ pc' = "out_done" /\ panic_msg' = panic_msg
  /\ UNCHANGED <<in_use, out_pos>>
  /\ UNCHANGED <<EFI_SYSTEM_TABLE, os_ret, st, reg_log>>

\* #[panic_handler]: efi_print!("{}", info), then loop {}.
Panic ==
  /\ pc = "panic"
  /\ os_ret' = "halted"
  /\ pc' = "os_load"
  /\ UNCHANGED <<EFI_SYSTEM_TABLE, st, panic_msg, console_calls, reg_log>>

Halted == pc = "halted"

(***************************************************************************)
(* Trap dispatch table: src/kernel/src/idt/mod.rs, handlers.rs             *)
(***************************************************************************)

\* A u64 is held as four 16-bit limbs, least significant first, and a u32 as
\* two, because the model checker's integers are narrower than 64 bits.
U64Zero == <<0, 0, 0, 0>>

RECURSIVE BitAnd(_, _)
BitAnd(a, b) ==
  IF a = 0 \/ b = 0 THEN 0
  ELSE (IF a % 2 = 1 /\ b % 2 = 1 THEN 1 ELSE 0) + 2 * BitAnd(a \div 2, b \div 2)

RECURSIVE BitOr(_, _)
BitOr(a, b) ==
  IF a = 0 THEN b ELSE IF b = 0 THEN a
  ELSE (IF a % 2 = 1 \/ b % 2 = 1 THEN 1 ELSE 0) + 2 * BitOr(a \div 2, b \div 2)

\* x & y, x | y, x >> bits, x << bits on u64 values (bits a multiple of 16).
And64(x, y) == [k \in 1..4 |-> BitAnd(x[k], y[k])]
Or64(x, y)  == [k \in 1..4 |-> BitOr(x[k], y[k])]
Shr64(x, bits) == [k \in 1..4 |-> IF k + (bits \div 16) <= 4 THEN x[k + (bits \div 16)] ELSE 0]
Shl64(x, bits) == [k \in 1..4 |-> IF k - (bits \div 16) >= 1 THEN x[k - (bits \div 16)] ELSE 0]

\* The masks 0xFFFF and 0xFFFFFFFF.
Mask16 == <<65535, 0, 0, 0>>
Mask32 == <<65535, 65535, 0, 0>>

\* `as u16`, `as u32` truncate; u16 and u32 widen to u64 with zeros.
AsU16(x) == x[1]
AsU32(x) == <<x[1], x[2]>>
FromU16(w) == <<w, 0, 0, 0>>
FromU32(d) == <<d[1], d[2], 0, 0>>

\* Number of entries of idt_entry_t, and the last index of the fill loop.
NumVectors == 256
LastVectorShort == NumVectors - 2
LastVector == NumVectors - 1
Vectors == 0..(NumVectors - 1)

\* Exceptions 0..MaxTrapVector are the traps the processor raises.
MaxTrapVector == 31
TrapVectors == 0..MaxTrapVector

\* size_of::<IDT>() for the packed descriptor: 2+2+1+1+2+4+4 bytes.
SizeOfIDT == 16

PageFaultVector == 14
BreakpointVector == 3
DoubleFaultVector == 8
GateFlags == 142
KernelCs == 8

Handlers == {"default_handler", "page_fault", "double_fault", "breakpoint"}

\* The message each handler passes to panic!.
HandlerMessage(h) ==
  CASE h = "default_handler" -> "Unhandled interrupt"
    [] h = "page_fault"      -> "Page fault"
    [] h = "double_fault"    -> "Double fault"
    [] h = "breakpoint"      -> "Breakpoint"

\* Where the linker may have put the kernel image: the upper three limbs of
\* every address in it.
ImageBases == { <<64, 0, 0>>, <<65535, 1, 32768>>, <<4660, 22136, 39612>> }

\* The low limb of each handler's address and of the table's address.
HandlerOffset(h) ==
  CASE h = "default_handler" -> 4096
    [] h = "page_fault"      -> 4128
    [] h = "double_fault"    -> 4160
    [] h = "breakpoint"      -> 4192
TableOffset == 16384

AddressIn(base, offset) == <<offset, base[1], base[2], base[3]>>

\* The all-zero descriptor the static table starts with.
ZeroDescriptor ==
  [isr_low |-> 0, kernel_cs |-> 0, ist |-> 0, attributes |-> 0,
   isr_mid |-> 0, isr_high |-> <<0, 0>>, reserved |-> 0]

\* The descriptor idt_set_descriptor builds for handler address isr.
DescriptorMidFromHigh(isr, flags) ==
  [isr_low    |-> AsU16(And64(isr, Mask16)),
   kernel_cs  |-> KernelCs,
   ist        |-> 0,
   attributes |-> flags,
   isr_mid    |-> AsU16(And64(Shr64(isr, 32), Mask16)),
   isr_high   |-> AsU32(And64(Shr64(isr, 32), Mask32)),
   reserved   |-> 0]
Descriptor(isr, flags) ==
  [isr_low    |-> AsU16(And64(isr, Mask16)),
   kernel_cs  |-> KernelCs,
   ist        |-> 0,
   attributes |-> flags,
   isr_mid    |-> AsU16(And64(Shr64(isr, 16), Mask16)),
   isr_high   |-> AsU32(And64(Shr64(isr, 32), Mask32)),
   reserved   |-> 0]

\* idt_set_descriptor(vector, isr, flags): the table after the call.
idt_set_descriptor(table, vector, isr, flags) ==
  [table EXCEPT ![vector] = Descriptor(isr, flags)]

\* The handler address the processor reads out of a descriptor:
\* isr_low | isr_mid << 16 | isr_high << 32.
HandlerAddress(d) ==
  Or64(Or64(FromU16(d.isr_low), Shl64(FromU16(d.isr_mid), 16)),
       Shl64(FromU32(d.isr_high), 32))

\* The address of a handler and of the table in the loaded image.
isr(h) == AddressIn(image, HandlerOffset(h))
TableAddress == AddressIn(image, TableOffset)

\* The handler idt_init wires to a vector.
HandlerOf(v) ==
  CASE v = PageFaultVector   -> "page_fault"
    [] v = BreakpointVector  -> "breakpoint"
    [] v = DoubleFaultVector -> "double_fault"
    [] OTHER                 -> "default_handler"

\* The table and register a completed idt_init leaves behind.
InstalledTable == [v \in Vectors |-> Descriptor(isr(HandlerOf(v)), GateFlags)]
InstalledIdtr == [limit |-> SizeOfIDT * 256 - 1, base |-> TableAddress]

\* The table register still holds what the firmware loaded.
FirmwareIdtr == [limit |-> 0, base |-> U64Zero]

KernelTableLoaded == cpu_idtr.base = TableAddress /\ cpu_idtr.limit /= 0

Populated(v) == idt_entry_t[v] /= ZeroDescriptor
AllPopulated == \A v \in Vectors : Populated(v)

\* Most idt_init calls a caller makes in one run.
MaxInstalls == 2

\* A caller invokes idt_init.
CallIdtInit ==
  /\ pc = "idle"
  /\ idt_calls < MaxInstalls
  /\ lidt_count' = 0
  /\ pc' = "idt_limit"
  /\ UNCHANGED <<idt_entry_t, idtr_t, cpu_idtr, idt_i, idt_calls, image, cur_handler>>

\* The processor raises exception v while the kernel's table is loaded and
\* transfers control to the address in descriptor v.
Trap(v) ==
  /\ KernelTableLoaded
  /\ pc \notin {"halted", "handler", "reset"}
  /\ LET target == HandlerAddress(idt_entry_t[v])
     IN IF \E h \in Handlers : isr(h) = target
        THEN /\ cur_handler' = CHOOSE h \in Handlers : isr(h) = target
             /\ pc' = "handler"
        ELSE /\ cur_handler' = cur_handler
             /\ pc' = "reset"
  /\ UNCHANGED <<idt_entry_t, idtr_t, cpu_idtr, idt_i, lidt_count, idt_calls, image>>

\* default_handler, page_fault, double_fault, breakpoint: panic!(message).
HandlerReturns ==
  /\ pc = "handler"
  /\ panic_msg' = HandlerMessage(cur_handler)
  /\ pc' = "idle"
  /\ UNCHANGED <<EFI_SYSTEM_TABLE, os_ret, st, console_calls, reg_log>>
Handler ==
  /\ pc = "handler"
  /\ panic_msg' = HandlerMessage(cur_handler)
  /\ pc' = "panic"
  /\ UNCHANGED <<EFI_SYSTEM_TABLE, os_ret, st, console_calls, reg_log>>

\* idt_init, statement by statement.  pc walks
\* idt_limit, idt_base, idt_fill (256 times), idt_pf, idt_bp, idt_df, idt_lidt.
IdtSetLimitSkipped ==
  /\ pc = "idt_limit"
  /\ pc' = "idt_base"
  /\ UNCHANGED <<idt_entry_t, idtr_t, cpu_idtr, idt_i, lidt_count, idt_calls, image, cur_handler>>
IdtSetLimitAccumulates ==
  /\ pc = "idt_limit"
  /\ idtr_t' = [idtr_t EXCEPT !.limit = idtr_t.limit + (SizeOfIDT * 256 - 1)]
  /\ pc' = "idt_base"
  /\ UNCHANGED <<idt_entry_t, cpu_idtr, idt_i, lidt_count, idt_calls, image, cur_handler>>
IdtSetLimit ==
  /\ pc = "idt_limit"
  /\ idtr_t' = [idtr_t EXCEPT !.limit = SizeOfIDT * 256 - 1]
  /\ pc' = "idt_base"
  /\ UNCHANGED <<idt_entry_t, cpu_idtr, idt_i, lidt_count, idt_calls, image, cur_handler>>

IdtSetBase ==
  /\ pc = "idt_base"
  /\ idtr_t' = [idtr_t EXCEPT !.base = TableAddress]
  /\ idt_i' = 0
  /\ pc' = "idt_fill"
  /\ UNCHANGED <<idt_entry_t, cpu_idtr, lidt_count, idt_calls, image, cur_handler>>

IdtFill ==
  /\ pc = "idt_fill"
  /\ idt_entry_t' = idt_set_descriptor(idt_entry_t, idt_i, isr("default_handler"), GateFlags)
  /\ IF idt_i = LastVector
     THEN pc' = "idt_pf" /\ idt_i' = idt_i
     ELSE pc' = "idt_fill" /\ idt_i' = idt_i + 1
  /\ UNCHANGED <<idtr_t, cpu_idtr, lidt_count, idt_calls, image, cur_handler>>

IdtSetPageFault ==
  /\ pc = "idt_pf"
  /\ idt_entry_t' = idt_set_descriptor(idt_entry_t, PageFaultVector, isr("page_fault"), GateFlags)
  /\ pc' = "idt_bp"
  /\ UNCHANGED <<idtr_t, cpu_idtr, idt_i, lidt_count, idt_calls, image, cur_handler>>

IdtSetBreakpoint ==
  /\ pc = "idt_bp"
  /\ idt_entry_t' = idt_set_descriptor(idt_entry_t, BreakpointVector, isr("breakpoint"), GateFlags)
  /\ pc' = "idt_df"
  /\ UNCHANGED <<idtr_t, cpu_idtr, idt_i, lidt_count, idt_calls, image, cur_handler>>

IdtSetDoubleFault ==
  /\ pc = "idt_df"
  /\ idt_entry_t' = idt_set_descriptor(idt_entry_t, DoubleFaultVector, isr("double_fault"), GateFlags)
  /\ pc' = "idt_lidt"
  /\ UNCHANGED <<idtr_t, cpu_idtr, idt_i, lidt_count, idt_calls, image, cur_handler>>

\* lidt: the processor takes limit and base from idtr_t; idt_init returns.
IdtLoad ==
  /\ pc = "idt_lidt"
  /\ cpu_idtr' = idtr_t
  /\ lidt_count' = lidt_count + 1
  /\ idt_calls' = idt_calls + 1
  /\ pc' = "idle"
  /\ UNCHANGED <<idt_entry_t, idtr_t, idt_i, image, cur_handler>>

(***************************************************************************)
(* Memory map acquisition: get_memory_map in src/shared/efi/src/lib.rs     *)
(* and the entry point efi_main in src/kernel/src/main.rs                  *)
(***************************************************************************)

\* size_of_val(&memory_map): the [0u8; 4 * 1024] buffer.
BufferCapacity == 4096
\* size_of::<EfiMemoryDescriptor>() with repr(C): 4 + 4 (padding) + 4 * 8.
DescriptorSize == 40
\* Bytes of a page.
PageSize == 4096

\* Most descriptors the firmware reports.
MaxDescs == 2
\* Largest type code the firmware reports; codes above 14 are unassigned.
MaxTypeCode == 15
\* Firmware strides run from DescriptorSize to DescriptorSize + MaxPad in
\* steps of 8 bytes.
MaxPad == 8
\* Page counts of the reported regions.
PageCounts == {2, 10}

TypeCodes == 0..MaxTypeCode
Strides == {DescriptorSize + p : p \in {q \in 0..MaxPad : q % 8 = 0}}

\* The statuses the firmware call returns in the model: success, the
\* buffer-too-small error, another error, and a warning.
Statuses == {"EfiSuccess", "EfiBufferTooSmall", "EfiInvalidParameter", "EfiWarnStaleData"}

\* impl From<u32> for EfiMemoryType
MemoryTypeFromShifted(val) ==
  CASE val = 0  -> "ReservedMemoryType"
    [] val = 1  -> "LoaderCode"
    [] val = 2  -> "LoaderData"
    [] val = 3  -> "BootServicesCode"
    [] val = 4  -> "BootServicesData"
    [] val = 5  -> "RuntimeServicesCode"
    [] val = 6  -> "RuntimeServicesData"
    [] val = 7  -> "ConventionalMemory"
    [] val = 8  -> "UnusableMemory"
    [] val = 9  -> "ACPIReclaimMemory"
    [] val = 10 -> "ACPIMemoryNVS"
    [] val = 11 -> "MemoryMappedIO"
    [] val = 12 -> "MemoryMappedIOPortSpace"
    [] val = 13 -> "PalCode"
    [] val = 14 -> "PersistentMemory"
    [] OTHER    -> "PersistentMemory"
MemoryTypeFrom(val) ==
  CASE val = 0  -> "ReservedMemoryType"
    [] val = 1  -> "LoaderCode"
    [] val = 2  -> "LoaderData"
    [] val = 3  -> "BootServicesCode"
    [] val = 4  -> "BootServicesData"
    [] val = 5  -> "RuntimeServicesCode"
    [] val = 6  -> "RuntimeServicesData"
    [] val = 7  -> "ConventionalMemory"
    [] val = 8  -> "UnusableMemory"
    [] val = 9  -> "ACPIReclaimMemory"
    [] val = 10 -> "ACPIMemoryNVS"
    [] val = 11 -> "MemoryMappedIO"
    [] val = 12 -> "MemoryMappedIOPortSpace"
    [] val = 13 -> "PalCode"
    [] val = 14 -> "PersistentMemory"
    [] OTHER    -> "Invalid"

\* EfiMemoryType::avail_post_exit_boot_services
avail_post_exit_boot_services(typ) ==
  typ \in {"BootServicesCode", "BootServicesData", "ConventionalMemory", "PersistentMemory"}

\* The descriptors the firmware may write: a type code and a page count.
DescriptorValues == [typ : TypeCodes, number_of_pages : PageCounts]

\* The map of the specification's example: ConventionalMemory 10 pages,
\* ReservedMemoryType 5 pages, BootServicesData 2 pages.
ExampleMap ==
  << [typ |-> 7, number_of_pages |-> 10],
     [typ |-> 0, number_of_pages |-> 5],
     [typ |-> 4, number_of_pages |-> 2] >>

RECURSIVE SeqsUpTo(_, _)
SeqsUpTo(S, n) ==
  IF n = 0 THEN {<<>>}
  ELSE LET shorter == SeqsUpTo(S, n - 1)
       IN shorter \cup {Append(q, x) : q \in {r \in shorter : Len(r) = n - 1}, x \in S}

\* The maps the firmware may report.
FirmwareMaps == SeqsUpTo(DescriptorValues, MaxDescs) \cup {ExampleMap}

\* read_unaligned(memory_map[off..]): the firmware wrote descriptor k at byte
\* k * mdesc_size; the rest of the buffer is still zero.
EntryAt(descs, stride, at) ==
  IF at % stride = 0 /\ (at \div stride) < Len(descs)
  THEN descs[(at \div stride) + 1]
  ELSE [typ |-> 0, number_of_pages |-> 0]

MapErrorMessage == "Error while getting the memory map"
StepByMessage == "assertion failed: step != 0"

\* efi_main: register_system_table(sys_t), then get_memory_map().
EfiMainRegister ==
  /\ pc = "efi_main"
  /\ register_system_table(sys_t, "gmm_load")
  /\ UNCHANGED <<os_ret, st, console_calls>>
  /\ UNCHANGED <<sys_t, fw_status, fw_calls, map_size, mdesc_size, map_descs, off, free_memory, printed, read_hi>>

\* get_memory_map: load the system table pointer, return when it is null.
GmmLoadUnchecked ==
  /\ pc = "gmm_load"
  /\ st' = EFI_SYSTEM_TABLE
  /\ pc' = "gmm_call"
  /\ free_memory' = 0
  /\ UNCHANGED <<EFI_SYSTEM_TABLE, os_ret, panic_msg, console_calls, reg_log>>
  /\ UNCHANGED <<sys_t, fw_status, fw_calls, map_size, mdesc_size, map_descs, off, printed, read_hi>>
GmmLoad ==
  /\ pc = "gmm_load"
  /\ st' = EFI_SYSTEM_TABLE
  /\ pc' = IF EFI_SYSTEM_TABLE = Null THEN "efi_return" ELSE "gmm_call"
  /\ free_memory' = 0
  /\ UNCHANGED <<EFI_SYSTEM_TABLE, os_ret, panic_msg, console_calls, reg_log>>
  /\ UNCHANGED <<sys_t, fw_status, fw_calls, map_size, mdesc_size, map_descs, off, printed, read_hi>>

\* The boot services get_memory_map call with size = 4096.  On success the
\* firmware has written the descriptors and reports their total size and
\* stride; on buffer-too-small it reports the size it needs and writes
\* nothing; on any other status the outputs are as they were.
GmmCall ==
  /\ pc = "gmm_call"
  /\ fw_calls' = fw_calls + 1
  /\ \E status \in Statuses, descs \in FirmwareMaps, stride \in Strides :
       /\ fw_status' = status
       /\ CASE status = "EfiSuccess" ->
                 /\ Len(descs) * stride <= BufferCapacity
                 /\ map_descs' = descs
                 /\ map_size' = Len(descs) * stride
                 /\ mdesc_size' = stride
            [] status = "EfiBufferTooSmall" ->
                 /\ descs = <<>>
                 /\ map_descs' = <<>>
                 /\ map_size' = BufferCapacity + stride
                 /\ mdesc_size' = stride
            [] OTHER ->
                 /\ descs = <<>> /\ stride = DescriptorSize
                 /\ map_descs' = <<>>
                 /\ map_size' = BufferCapacity
                 /\ mdesc_size' = 0
  /\ pc' = "gmm_assert"
  /\ UNCHANGED <<EFI_SYSTEM_TABLE, os_ret, st, panic_msg, console_calls, reg_log>>
  /\ UNCHANGED <<sys_t, off, free_memory, printed, read_hi>>

\* Sizes and strides a firmware may report on success when nothing is
\* assumed of it: sizes up to MaxSmallSize and sizes within MaxOverrun of the
\* buffer capacity, strides from 1 to the largest padded stride, and at most
\* MaxWalkSteps offsets to walk.
MaxSmallSize == 96
MaxOverrun == 40
MaxWalkSteps == 104

ReportedSizes ==
  (0..MaxSmallSize) \cup ((BufferCapacity - MaxOverrun)..(BufferCapacity + MaxOverrun))

ReportedStrides == 1..(DescriptorSize + MaxPad)

\* The boot services get_memory_map call returning EfiSuccess with any
\* reported size and stride.  The firmware has written the example map when
\* it fits the reported size at the reported stride, or nothing.
GmmCallAny ==
  /\ pc = "gmm_call"
  /\ fw_calls' = fw_calls + 1
  /\ fw_status' = "EfiSuccess"
  /\ \E size \in ReportedSizes, stride \in ReportedStrides, descs \in {<<>>, ExampleMap} :
       /\ (size + stride - 1) \div stride <= MaxWalkSteps
       /\ descs /= <<>> => /\ stride >= DescriptorSize
                           /\ Len(descs) * stride <= size
                           /\ size <= BufferCapacity
       /\ map_descs' = descs
       /\ map_size' = size
       /\ mdesc_size' = stride
  /\ pc' = "gmm_assert"
  /\ UNCHANGED <<EFI_SYSTEM_TABLE, os_ret, st, panic_msg, console_calls, reg_log>>
  /\ UNCHANGED <<sys_t, off, free_memory, printed, read_hi>>

\* assert!(ret == EfiStatus::EfiSuccess, ...), then the construction of
\* (0..size).step_by(mdesc_size), which panics on a zero step.
GmmAssertLenient ==
  /\ pc = "gmm_assert"
  /\ IF mdesc_size = 0
     THEN pc' = "panic" /\ panic_msg' = StepByMessage
     ELSE pc' = "gmm_walk" /\ panic_msg' = panic_msg
  /\ off' = 0
  /\ UNCHANGED <<EFI_SYSTEM_TABLE, os_ret, st, console_calls, reg_log>>
  /\ UNCHANGED <<sys_t, fw_status, fw_calls, map_size, mdesc_size, map_descs, free_memory, printed, read_hi>>
GmmAssert ==
  /\ pc = "gmm_assert"
  /\ IF fw_status /= "EfiSuccess"
     THEN pc' = "panic" /\ panic_msg' = MapErrorMessage
     ELSE IF mdesc_size = 0
          THEN pc' = "panic" /\ panic_msg' = StepByMessage
          ELSE pc' = "gmm_walk" /\ panic_msg' = panic_msg
  /\ off' = 0
  /\ UNCHANGED <<EFI_SYSTEM_TABLE, os_ret, st, console_calls, reg_log>>
  /\ UNCHANGED <<sys_t, fw_status, fw_calls, map_size, mdesc_size, map_descs, free_memory, printed, read_hi>>

\* read_unaligned of size_of::<EfiMemoryDescriptor>() bytes at
\* memory_map[off..]: inside the buffer it yields what the buffer holds; a
\* read that runs past the end of the buffer yields whatever lies behind it.
ReadUnaligned(descs, stride, at) ==
  IF at + DescriptorSize <= BufferCapacity
  THEN {EntryAt(descs, stride, at)}
  ELSE DescriptorValues \cup {[typ |-> 0, number_of_pages |-> 0]}

SliceMessage == "range start index out of range"

\* One iteration of the walk: slice memory_map[off..] (a panic when off is
\* past the buffer), decode the entry there, classify it, add its bytes
\* when it is available, and efi_print! the line (output_string finds the
\* pointer published before get_memory_map could get here).
GmmWalk ==
  /\ pc = "gmm_walk"
  /\ off < map_size
  /\ IF off > BufferCapacity
     THEN /\ pc' = "panic" /\ panic_msg' = SliceMessage
          /\ UNCHANGED <<free_memory, printed, console_calls, off, read_hi>>
     ELSE /\ \E entry \in ReadUnaligned(map_descs, mdesc_size, off) :
               LET typ == MemoryTypeFrom(entry.typ)
               IN /\ free_memory' = IF avail_post_exit_boot_services(typ)
                                    THEN free_memory + entry.number_of_pages * PageSize
                                    ELSE free_memory
                  /\ printed' = Append(printed, [bytes |-> entry.number_of_pages * PageSize, typ |-> typ])
          /\ read_hi' = off + DescriptorSize
          /\ console_calls' = console_calls + (IF EFI_SYSTEM_TABLE = Null THEN 0 ELSE 1)
          /\ off' = off + mdesc_size
          /\ pc' = "gmm_walk" /\ panic_msg' = panic_msg
  /\ UNCHANGED <<EFI_SYSTEM_TABLE, os_ret, st, reg_log>>
  /\ UNCHANGED <<sys_t, fw_status, fw_calls, map_size, mdesc_size, map_descs>>

\* The walk is over: get_memory_map returns to efi_main.
GmmDone ==
  /\ pc = "gmm_walk"
  /\ off >= map_size
  /\ pc' = "efi_return"
  /\ UNCHANGED efiVars
  /\ UNCHANGED mapVars

\* efi_main returns EfiStatus::EfiSuccess to the firmware.
EfiMainReturn ==
  /\ pc = "efi_return"
  /\ pc' = "returned"
  /\ UNCHANGED efiVars
  /\ UNCHANGED mapVars

(***************************************************************************)
(* Specifications                                                          *)
(***************************************************************************)

MoveQuiet ==
  /\ mem = InitialMemory
  /\ mm_dest = 0 /\ mm_src = 0 /\ mm_n = 0
  /\ mm_pc = "idle"

CmpQuiet ==
  /\ cmp_a = <<>> /\ cmp_b = <<>> /\ cmp_n = 0
  /\ cmp_ret = 0 /\ cmp_reads = 0
  /\ cmp_pc = "idle"

OutQuiet ==
  /\ in_use = 0
  /\ out_pos = 0
  /\ out_top = -1

LibQuiet == CmpQuiet /\ OutQuiet

EfiQuiet ==
  /\ EFI_SYSTEM_TABLE = Null
  /\ os_ret = "idle"
  /\ st = Null
  /\ panic_msg = ""
  /\ console_calls = 0
  /\ reg_log = <<>>

IdtQuiet ==
  /\ idt_entry_t = [v \in Vectors |-> ZeroDescriptor]
  /\ idtr_t = [limit |-> 0, base |-> U64Zero]
  /\ cpu_idtr = FirmwareIdtr
  /\ idt_i = 0
  /\ lidt_count = 0
  /\ idt_calls = 0
  /\ cur_handler = ""

MapQuiet ==
  /\ fw_status = "none"
  /\ fw_calls = 0
  /\ map_size = 0
  /\ mdesc_size = 0
  /\ map_descs = <<>>
  /\ off = 0
  /\ free_memory = 0
  /\ printed = <<>>
  /\ read_hi = 0

\* ---- The boot path: the firmware calls efi_main once. ----
Init ==
  /\ pc = "efi_main"
  /\ sys_t \in Pointers \ {Null}
  /\ image = <<64, 0, 0>>
  /\ MoveQuiet /\ LibQuiet /\ EfiQuiet /\ IdtQuiet /\ MapQuiet

Next ==
  \/ EfiMainRegister /\ UNCHANGED <<moveVars, libVars, idtVars>>
  \/ GmmLoad         /\ UNCHANGED <<moveVars, libVars, idtVars>>
  \/ GmmCall         /\ UNCHANGED <<moveVars, libVars, idtVars>>
  \/ GmmAssert       /\ UNCHANGED <<moveVars, libVars, idtVars>>
  \/ GmmWalk         /\ UNCHANGED <<moveVars, libVars, idtVars>>
  \/ GmmDone         /\ UNCHANGED <<moveVars, libVars, idtVars>>
  \/ EfiMainReturn   /\ UNCHANGED <<moveVars, libVars, idtVars>>
  \/ Panic           /\ UNCHANGED <<moveVars, libVars, idtVars, mapVars>>
  \/ OsLoad          /\ UNCHANGED <<moveVars, libVars, idtVars, mapVars>>
  \/ OsWrite         /\ UNCHANGED <<moveVars, libVars, idtVars, mapVars>>

Spec == Init /\ [][Next]_vars

\* ---- Callers of register_system_table and output_string, with the ----
\* ---- trap table installed so that a trap may interrupt at any step. ----
InitReg ==
  /\ pc = "idle"
  /\ sys_t = Null
  /\ image = <<64, 0, 0>>
  /\ MoveQuiet /\ LibQuiet /\ EfiQuiet /\ MapQuiet
  /\ idt_entry_t = InstalledTable
  /\ idtr_t = InstalledIdtr
  /\ cpu_idtr = InstalledIdtr
  /\ idt_i = LastVector
  /\ lidt_count = 1
  /\ idt_calls = 1
  /\ cur_handler = ""

CallRegister(p) ==
  /\ pc = "idle"
  /\ Len(reg_log) < MaxRegCalls
  /\ register_system_table(p, "idle")
  /\ UNCHANGED <<os_ret, st, console_calls>>

CallOutputString ==
  /\ pc = "idle"
  /\ console_calls < MaxPrints
  /\ os_ret' = "idle"
  /\ pc' = "os_load"
  /\ UNCHANGED <<EFI_SYSTEM_TABLE, st, panic_msg, console_calls, reg_log>>

NextReg ==
  \/ (\E p \in Pointers : CallRegister(p)) /\ UNCHANGED <<moveVars, libVars, idtVars, mapVars>>
  \/ CallOutputString /\ UNCHANGED <<moveVars, libVars, idtVars, mapVars>>
  \/ OsLoad           /\ UNCHANGED <<moveVars, libVars, idtVars, mapVars>>
  \/ OsWrite          /\ UNCHANGED <<moveVars, libVars, idtVars, mapVars>>
  \/ (\E v \in TrapVectors : Trap(v)) /\ UNCHANGED <<moveVars, libVars, efiVars, mapVars>>
  \/ Handler          /\ UNCHANGED <<moveVars, libVars, idtVars, mapVars>>
  \/ Panic            /\ UNCHANGED <<moveVars, libVars, idtVars, mapVars>>

SpecReg == InitReg /\ [][NextReg]_vars

\* ---- Callers that use the firmware services around the publication of ----
\* ---- the pointer: registrations and diagnostic output in any order,   ----
\* ---- and get_memory_map as the last call before returning.            ----
InitEarly ==
  /\ pc = "idle"
  /\ sys_t = Null
  /\ image = <<64, 0, 0>>
  /\ MoveQuiet /\ LibQuiet /\ EfiQuiet /\ IdtQuiet /\ MapQuiet

\* get_memory_map is called straight after at most one registration.
CallGetMemoryMap ==
  /\ pc = "idle"
  /\ fw_calls = 0
  /\ console_calls = 0
  /\ Len(reg_log) <= 1
  /\ pc' = "gmm_load"
  /\ UNCHANGED efiVars
  /\ UNCHANGED mapVars

NextEarly ==
  \/ (\E p \in Pointers : CallRegister(p)) /\ UNCHANGED <<moveVars, libVars, idtVars, mapVars>>
  \/ CallOutputString /\ UNCHANGED <<moveVars, libVars, idtVars, mapVars>>
  \/ OsLoad           /\ UNCHANGED <<moveVars, libVars, idtVars, mapVars>>
  \/ OsWrite          /\ UNCHANGED <<moveVars, libVars, idtVars, mapVars>>
  \/ Panic            /\ UNCHANGED <<moveVars, libVars, idtVars, mapVars>>
  \/ CallGetMemoryMap /\ UNCHANGED <<moveVars, libVars, idtVars>>
  \/ GmmLoad          /\ UNCHANGED <<moveVars, libVars, idtVars>>
  \/ GmmCall          /\ UNCHANGED <<moveVars, libVars, idtVars>>
  \/ GmmAssert        /\ UNCHANGED <<moveVars, libVars, idtVars>>
  \/ GmmWalk          /\ UNCHANGED <<moveVars, libVars, idtVars>>
  \/ GmmDone          /\ UNCHANGED <<moveVars, libVars, idtVars>>
  \/ EfiMainReturn    /\ UNCHANGED <<moveVars, libVars, idtVars>>

SpecEarly == InitEarly /\ [][NextEarly]_vars

\* ---- Callers of idt_init; once the table is loaded, traps arrive. ----
InitIdt ==
  /\ pc = "idle"
  /\ sys_t = Null
  /\ image \in ImageBases
  /\ MoveQuiet /\ LibQuiet /\ IdtQuiet /\ MapQuiet
  /\ EFI_SYSTEM_TABLE \in {Null, 1}
  /\ reg_log = IF EFI_SYSTEM_TABLE = Null THEN <<>>
               ELSE <<[arg |-> EFI_SYSTEM_TABLE, before |-> Null, ok |-> TRUE]>>
  /\ os_ret = "idle"
  /\ st = Null
  /\ panic_msg = ""
  /\ console_calls = 0

NextIdt ==
  \/ CallIdtInit       /\ UNCHANGED <<moveVars, libVars, efiVars, mapVars>>
  \/ IdtSetLimit       /\ UNCHANGED <<moveVars, libVars, efiVars, mapVars>>
  \/ IdtSetBase        /\ UNCHANGED <<moveVars, libVars, efiVars, mapVars>>
  \/ IdtFill           /\ UNCHANGED <<moveVars, libVars, efiVars, mapVars>>
  \/ IdtSetPageFault   /\ UNCHANGED <<moveVars, libVars, efiVars, mapVars>>
  \/ IdtSetBreakpoint  /\ UNCHANGED <<moveVars, libVars, efiVars, mapVars>>
  \/ IdtSetDoubleFault /\ UNCHANGED <<moveVars, libVars, efiVars, mapVars>>
  \/ IdtLoad           /\ UNCHANGED <<moveVars, libVars, efiVars, mapVars>>
  \/ (\E v \in TrapVectors : Trap(v)) /\ UNCHANGED <<moveVars, libVars, efiVars, mapVars>>
  \/ Handler           /\ UNCHANGED <<moveVars, libVars, idtVars, mapVars>>
  \/ Panic             /\ UNCHANGED <<moveVars, libVars, idtVars, mapVars>>
  \/ OsLoad            /\ UNCHANGED <<moveVars, libVars, idtVars, mapVars>>
  \/ OsWrite           /\ UNCHANGED <<moveVars, libVars, idtVars, mapVars>>

SpecIdt == InitIdt /\ [][NextIdt]_vars

\* ---- Callers of memmove. ----
InitMove ==
  /\ pc = "idle"
  /\ sys_t = Null
  /\ image = <<64, 0, 0>>
  /\ MoveQuiet /\ LibQuiet /\ EfiQuiet /\ IdtQuiet /\ MapQuiet

NextMove ==
  \/ CallMemmove /\ UNCHANGED <<libVars, pc, efiVars, idtVars, mapVars>>
  \/ ResetMove   /\ UNCHANGED <<libVars, pc, efiVars, idtVars, mapVars>>

SpecMove == InitMove /\ [][NextMove]_vars

\* ---- Callers of memcmp. ----
InitCmp ==
  /\ pc = "idle"
  /\ sys_t = Null
  /\ image = <<64, 0, 0>>
  /\ MoveQuiet /\ LibQuiet /\ EfiQuiet /\ IdtQuiet /\ MapQuiet

NextCmp ==
  \/ CallMemcmp /\ UNCHANGED <<moveVars, outVars, pc, efiVars, idtVars, mapVars>>
  \/ ResetCmp   /\ UNCHANGED <<moveVars, outVars, pc, efiVars, idtVars, mapVars>>

SpecCmp == InitCmp /\ [][NextCmp]_vars

\* ---- The boot path with a firmware of which nothing is assumed. ----
NextWalk ==
  \/ EfiMainRegister /\ UNCHANGED <<moveVars, libVars, idtVars>>
  \/ GmmLoad         /\ UNCHANGED <<moveVars, libVars, idtVars>>
  \/ GmmCallAny      /\ UNCHANGED <<moveVars, libVars, idtVars>>
  \/ GmmAssert       /\ UNCHANGED <<moveVars, libVars, idtVars>>
  \/ GmmWalk         /\ UNCHANGED <<moveVars, libVars, idtVars>>
  \/ GmmDone         /\ UNCHANGED <<moveVars, libVars, idtVars>>
  \/ EfiMainReturn   /\ UNCHANGED <<moveVars, libVars, idtVars>>
  \/ Panic           /\ UNCHANGED <<moveVars, libVars, idtVars, mapVars>>
  \/ OsLoad          /\ UNCHANGED <<moveVars, libVars, idtVars, mapVars>>
  \/ OsWrite         /\ UNCHANGED <<moveVars, libVars, idtVars, mapVars>>

SpecWalk == Init /\ [][NextWalk]_vars

\* ---- A caller of output_string, for any string of up to MaxStrLen ----
\* ---- units, drawn unit by unit as the loop takes them.             ----
InitOut ==
  /\ pc = "out_call"
  /\ sys_t = Null
  /\ image = <<64, 0, 0>>
  /\ MoveQuiet /\ LibQuiet /\ IdtQuiet /\ MapQuiet
  /\ EFI_SYSTEM_TABLE \in Pointers
  /\ reg_log = IF EFI_SYSTEM_TABLE = Null THEN <<>>
               ELSE <<[arg |-> EFI_SYSTEM_TABLE, before |-> Null, ok |-> TRUE]>>
  /\ os_ret = "idle"
  /\ st = Null
  /\ panic_msg = ""
  /\ console_calls = 0

NextOut ==
  \/ OutLoad /\ UNCHANGED <<moveVars, cmpVars, idtVars, mapVars>>
  \/ (\E chr \in Chars : OutChar(chr)) /\ UNCHANGED <<moveVars, cmpVars, idtVars, mapVars>>
  \/ OutRest /\ UNCHANGED <<moveVars, cmpVars, idtVars, mapVars>>
  \/ Panic   /\ UNCHANGED <<moveVars, libVars, idtVars, mapVars>>
  \/ OsLoad  /\ UNCHANGED <<moveVars, libVars, idtVars, mapVars>>
  \/ OsWrite /\ UNCHANGED <<moveVars, libVars, idtVars, mapVars>>

SpecOut == InitOut /\ [][NextOut]_vars

(***************************************************************************)
(* Properties                                                              *)
(***************************************************************************)

\* C1: after memmove(dest, src, n) returns, dest[0..n) holds the bytes that
\* src[0..n) held before the call, whatever the placement of the two ranges.
MoveMatchesReference ==
  mm_pc = "returned" =>
    \A i \in 0..(mm_n - 1) : mem[mm_dest + i] = InitialMemory[mm_src + i]

\* A chunked move: dest ahead of src by at least 64, two whole chunks and a
\* remainder.
MoveChunkedReached ==
  /\ mm_pc = "returned"
  /\ mm_dest - mm_src >= SmallOverhang
  /\ mm_n > 2 * (mm_dest - mm_src)
  /\ mm_src % 8 /= 0

\* C2: a register_system_table call made after a non-null pointer was
\* registered fails, never returns to its caller, and leaves the registered
\* pointer in place.
SecondRegisterFails ==
  \A i, j \in 1..Len(reg_log) :
    (i < j /\ reg_log[i].ok /\ reg_log[i].arg /= Null) =>
      /\ ~reg_log[j].ok
      /\ EFI_SYSTEM_TABLE = reg_log[i].arg
      /\ pc /= "idle"

SecondRegisterReached ==
  /\ Halted
  /\ Len(reg_log) = 2
  /\ reg_log[1].ok /\ reg_log[1].arg = 1
  /\ reg_log[2].arg = 2
  /\ panic_msg = ExpectMessage

\* C3: once the handle holds a non-null pointer it never changes, and every
\* load of it yields null or the pointer the handle holds from then on.
HandleSetOnce ==
  [][ /\ (EFI_SYSTEM_TABLE /= Null => EFI_SYSTEM_TABLE' = EFI_SYSTEM_TABLE)
      /\ (st' /= Null => st' = EFI_SYSTEM_TABLE') ]_vars

\* A trap handler's panic read the published pointer after a second
\* registration had been attempted.
HandlerReadReached ==
  /\ pc = "os_write"
  /\ cur_handler = "page_fault"
  /\ st = 2 /\ EFI_SYSTEM_TABLE = 2
  /\ Len(reg_log) = 2
  /\ reg_log[1].arg = Null

\* C4: once idt_init has returned, every vector's descriptor reassembles to
\* the address of its handler (page_fault for 14, breakpoint for 3,
\* double_fault for 8, default_handler otherwise) and none is all-zero.
IdtDecodesToHandlers ==
  (pc = "idle" /\ idt_calls >= 1) =>
    \A v \in Vectors :
      /\ HandlerAddress(idt_entry_t[v]) =
           isr(CASE v = 14 -> "page_fault"
                 [] v = 3  -> "breakpoint"
                 [] v = 8  -> "double_fault"
                 [] OTHER  -> "default_handler")
      /\ idt_entry_t[v] /= ZeroDescriptor

IdtInstalledReached ==
  /\ pc = "idle"
  /\ idt_calls = 1
  /\ image = <<4660, 22136, 39612>>

\* C5: an idt_init call executes lidt once, as its last step, and whenever
\* the processor holds the kernel's table every vector is populated and
\* vectors 14, 3 and 8 hold their dedicated handlers' descriptors.
LidtOnceAfterPopulated ==
  /\ lidt_count <= 1
  /\ (pc = "idle" /\ idt_calls >= 1) => lidt_count = 1
  /\ pc \in {"idt_limit", "idt_base", "idt_fill", "idt_pf", "idt_bp", "idt_df", "idt_lidt"}
       => lidt_count = 0
  /\ lidt_count = 1 =>
        /\ AllPopulated
        /\ idt_entry_t[PageFaultVector] = Descriptor(isr("page_fault"), GateFlags)
        /\ idt_entry_t[BreakpointVector] = Descriptor(isr("breakpoint"), GateFlags)
        /\ idt_entry_t[DoubleFaultVector] = Descriptor(isr("double_fault"), GateFlags)
  /\ KernelTableLoaded => AllPopulated

LidtExecutedReached ==
  /\ lidt_count = 1
  /\ KernelTableLoaded
  /\ cpu_idtr = InstalledIdtr
  /\ idt_calls = 2

\* C6 as stated: limit and base of idtr_t are written only once every
\* descriptor has been written.
PayloadAfterTable ==
  (idtr_t.limit /= 0 \/ idtr_t.base /= U64Zero) => AllPopulated

\* C6 amended: idtr_t is written before the descriptors (limit 4095 and the
\* table's address, whenever any descriptor is populated), and the processor
\* receives it only once every descriptor is populated.
PayloadBeforeTable ==
  /\ (\E v \in Vectors : Populated(v)) => idtr_t = InstalledIdtr
  /\ cpu_idtr \in {FirmwareIdtr, InstalledIdtr}
  /\ cpu_idtr = InstalledIdtr => AllPopulated

PartlyFilledReached ==
  /\ pc = "idt_fill"
  /\ idt_calls = 0
  /\ Populated(0) /\ ~Populated(LastVector)
  /\ idtr_t = InstalledIdtr
  /\ cpu_idtr = FirmwareIdtr

\* C7 as stated: the firmware memory map is queried only after the pointer
\* is published and the trap table is installed.
MapQueryAfterTrapTable ==
  fw_calls > 0 => (EFI_SYSTEM_TABLE /= Null /\ KernelTableLoaded /\ AllPopulated)

\* C8 as stated: a buffer-too-small status does not stop get_memory_map.
RetryOnBufferTooSmall ==
  fw_status = "EfiBufferTooSmall" => (pc \notin {"panic", "halted"} /\ panic_msg = "")

\* C9: when the firmware call returned anything but EfiSuccess, no entry is
\* decoded, summed or printed and get_memory_map never returns.
NoDecodeAfterFailure ==
  (fw_calls > 0 /\ fw_status /= "EfiSuccess") =>
    /\ printed = <<>>
    /\ free_memory = 0
    /\ pc \in {"gmm_assert", "panic", "os_load", "os_write", "halted"}

FailureHaltReached ==
  /\ Halted
  /\ fw_status = "EfiInvalidParameter"
  /\ panic_msg = MapErrorMessage
  /\ console_calls = 1

\* The bytes of the descriptors whose type code is 3, 4, 7 or 14.
RECURSIVE UsableBytes(_)
UsableBytes(descs) ==
  IF descs = <<>> THEN 0
  ELSE (IF Head(descs).typ \in {3, 4, 7, 14} THEN Head(descs).number_of_pages * 4096 ELSE 0)
       + UsableBytes(Tail(descs))

\* C10: free_memory is the sum of number_of_pages * 4096 over the decoded
\* descriptors of type 3, 4, 7 or 14, and when the walk is over every
\* descriptor the firmware returned has been decoded.
FreeMemoryIsUsableSum ==
  (fw_status = "EfiSuccess" /\ pc \in {"gmm_walk", "efi_return", "returned"}) =>
    /\ Len(printed) <= Len(map_descs)
    /\ free_memory = UsableBytes(SubSeq(map_descs, 1, Len(printed)))
    /\ pc \in {"efi_return", "returned"} => Len(printed) = Len(map_descs)

ExampleMapSummed ==
  /\ pc = "returned"
  /\ map_descs = ExampleMap
  /\ free_memory = 49152

\* C11: while the handle is null, get_memory_map and output_string have
\* made no firmware call of either kind, have not panicked, and sit at or
\* return to their caller.
UnsetMeansNoFirmwareCall ==
  EFI_SYSTEM_TABLE = Null =>
    /\ fw_calls = 0
    /\ console_calls = 0
    /\ panic_msg = ""
    /\ st = Null
    /\ pc \in {"idle", "os_load", "gmm_load", "efi_return", "returned"}

\* get_memory_map has returned with the handle still null, after a
\* register_system_table(null).
UnsetMapReturnReached ==
  /\ pc = "returned"
  /\ EFI_SYSTEM_TABLE = Null
  /\ Len(reg_log) = 1
  /\ fw_calls = 0

\* The indices below n at which the two buffers of the last call differ.
CmpDiffs == {i \in 1..cmp_n : cmp_a[i] /= cmp_b[i]}

\* C12: memcmp returns 0 exactly when the first n bytes agree; otherwise the
\* result is nonzero with the sign of a[i] - b[i] at the first differing
\* index i, and nothing beyond index i has been read.
CompareSignOfFirstDiff ==
  cmp_pc = "returned" =>
    IF CmpDiffs = {}
    THEN cmp_ret = 0 /\ cmp_reads = cmp_n
    ELSE LET i == CHOOSE d \in CmpDiffs : \A e \in CmpDiffs : d <= e
         IN /\ cmp_ret /= 0
            /\ (cmp_ret < 0) = (cmp_a[i] < cmp_b[i])
            /\ cmp_reads = i

\* The example: [1,2,3] against [1,2,5] over 3 bytes is negative.
CompareExampleReached ==
  /\ cmp_pc = "returned"
  /\ cmp_a = <<1, 2, 3>> /\ cmp_b = <<1, 2, 5>> /\ cmp_n = 3
  /\ cmp_ret < 0

\* C13: whenever an idt_init call has returned, the first or the second,
\* the table, idtr_t and the processor's register hold the same values:
\* those a single call leaves.
InstallIsIdempotent ==
  (pc = "idle" /\ idt_calls >= 1) =>
    /\ idt_entry_t = InstalledTable
    /\ idtr_t = InstalledIdtr
    /\ cpu_idtr = InstalledIdtr

SecondInstallReached ==
  /\ pc = "idle"
  /\ idt_calls = 2
  /\ lidt_count = 1
  /\ idt_entry_t[PageFaultVector] /= idt_entry_t[0]

\* C14: from the moment a handler is entered, control stays in the handler,
\* its panic and the final loop: no idt_init or caller step runs, the table
\* and the handle stay as they are, the halt is permanent, and on reaching
\* the halt the handler's message has gone to output_string, which has
\* written it to the console when the handle is set.
HandlerHaltsForever ==
  [][ cur_handler /= "" =>
        /\ pc' \in {"handler", "panic", "os_load", "os_write", "halted"}
        /\ cur_handler' /= ""
        /\ UNCHANGED <<idt_entry_t, idtr_t, cpu_idtr, idt_calls, EFI_SYSTEM_TABLE>>
        /\ (pc = "halted" => pc' = "halted")
        /\ (pc' = "halted" =>
              /\ panic_msg' = HandlerMessage(cur_handler')
              /\ st' = EFI_SYSTEM_TABLE'
              /\ (EFI_SYSTEM_TABLE' /= Null => console_calls' >= 1)) ]_vars

HandlerHaltReached ==
  /\ pc = "halted"
  /\ cur_handler = "double_fault"
  /\ panic_msg = "Double fault"
  /\ console_calls = 1
  /\ idt_calls = 1

\* The first non-null pointer among the arguments of the calls made so far,
\* null when there is none.
RECURSIVE FirstNonNull(_)
FirstNonNull(log) ==
  IF log = <<>> THEN Null
  ELSE IF Head(log).arg /= Null THEN Head(log).arg
  ELSE FirstNonNull(Tail(log))

\* C15: the handle always holds the first non-null pointer passed to
\* register_system_table so far (null when none was), and every call made
\* while the handle was null succeeded, calls passing null included.
FirstNonNullIsStored ==
  /\ EFI_SYSTEM_TABLE = FirstNonNull(reg_log)
  /\ \A j \in 1..Len(reg_log) :
       /\ reg_log[j].before = FirstNonNull(SubSeq(reg_log, 1, j - 1))
       /\ reg_log[j].ok = (reg_log[j].before = Null)

\* Two register_system_table(null) calls succeeded and the registration
\* that followed them was stored.
NullThenPointerReached ==
  /\ pc = "idle"
  /\ Len(reg_log) = 3
  /\ reg_log[1].arg = Null /\ reg_log[1].ok
  /\ reg_log[2].arg = Null /\ reg_log[2].ok
  /\ reg_log[3].arg = 2 /\ reg_log[3].ok
  /\ EFI_SYSTEM_TABLE = 2

\* C16 as stated: output_string never uses an index of tmp outside 0..31.
TmpIndexInBounds == out_top < TmpLen

\* C17 as stated: every descriptor get_memory_map reads ends inside the
\* 4096-byte buffer and inside the first map_size bytes the firmware reported.
DescriptorReadsInBounds ==
  /\ read_hi <= BufferCapacity
  /\ read_hi <= map_size

====
